---- MODULE Spec2Model ----
(***************************************************************************)
(* Model of rkz: parsing of a gas specification into a composition         *)
(* (gas.rs) and evaluation of the compressibility factor with a cubic      *)
(* equation of state (eos.rs).                                             *)
(*                                                                         *)
(* gas.rs compares and sums f64 values, so the composition part of the     *)
(* model computes on IEEE-754 binary64 values exactly: a finite value is   *)
(* sign * m * 2^e with m an odd natural of at most 53 bits, kept as a      *)
(* little-endian sequence of bits because it does not fit a TLC integer,   *)
(* and every operation rounds to nearest, ties to even.  The exponent is   *)
(* not bounded: the inputs stay far from overflow and from subnormals.     *)
(*                                                                         *)
(* The equation-of-state part computes in exact arithmetic (see there),    *)
(* and the cubic solver, an external crate, answers with any array of      *)
(* zero to three roots.  rk.rs, the Redlich-Kwong equation alone, is       *)
(* modelled beside eos.rs, in exact arithmetic and, for a pure gas, on     *)
(* f64.                                                                    *)
(***************************************************************************)
EXTENDS Integers, Sequences, FiniteSets, TLC

(***************************************************************************)
(* Naturals of arbitrary size: little-endian bit sequences, the last bit   *)
(* being 1; zero is the empty sequence.  Sums, differences and quotients   *)
(* are computed on limbs of LimbBits bits, which keeps the recursion       *)
(* shallow and every intermediate value inside TLC's integers.             *)
(***************************************************************************)
LimbBits == 16

LimbBase == 2 ^ LimbBits

Min(i, j) == IF i < j THEN i ELSE j

Max(i, j) == IF i > j THEN i ELSE j

Zeros(n) == [i \in 1..n |-> 0]

Trim(a) ==
    IF \A i \in 1..Len(a) : a[i] = 0 THEN <<>>
    ELSE SubSeq(a, 1, CHOOSE i \in 1..Len(a) :
                          a[i] = 1 /\ \A j \in (i + 1)..Len(a) : a[j] = 0)

RECURSIVE OfNat(_)
OfNat(n) == IF n = 0 THEN <<>> ELSE <<n % 2>> \o OfNat(n \div 2)

RECURSIVE ToNat(_)
ToNat(a) == IF a = <<>> THEN 0 ELSE Head(a) + 2 * ToNat(Tail(a))

NumLimbs(a) == (Len(a) + LimbBits - 1) \div LimbBits

\* limb i of a, for any i >= 1
Limb(a, i) ==
    IF i > NumLimbs(a) THEN 0
    ELSE ToNat(SubSeq(a, LimbBits * (i - 1) + 1, Min(LimbBits * i, Len(a))))

\* the natural whose limbs are l
OfLimbs(l) ==
    Trim([i \in 1..(LimbBits * Len(l)) |->
             (l[((i - 1) \div LimbBits) + 1] \div (2 ^ ((i - 1) % LimbBits))) % 2])

RECURSIVE AddLimbs(_, _, _, _, _)
AddLimbs(a, b, i, n, c) ==
    IF i > n THEN <<c>>
    ELSE LET t == Limb(a, i) + Limb(b, i) + c
         IN  <<t % LimbBase>> \o AddLimbs(a, b, i + 1, n, t \div LimbBase)

BAdd(a, b) == OfLimbs(AddLimbs(a, b, 1, Max(NumLimbs(a), NumLimbs(b)), 0))

\* a - b for a >= b
RECURSIVE SubLimbs(_, _, _, _, _)
SubLimbs(a, b, i, n, c) ==
    IF i > n THEN <<>>
    ELSE LET t == Limb(a, i) - Limb(b, i) - c
         IN  <<t % LimbBase>> \o SubLimbs(a, b, i + 1, n, IF t < 0 THEN 1 ELSE 0)

BSub(a, b) == OfLimbs(SubLimbs(a, b, 1, NumLimbs(a), 0))

\* -1, 0, 1 as a < b, a = b, a > b
BCmp(a, b) ==
    IF Len(a) > Len(b) THEN 1
    ELSE IF Len(a) < Len(b) THEN -1
    ELSE IF a = b THEN 0
    ELSE LET i == CHOOSE i \in 1..Len(a) :
                      a[i] # b[i] /\ \A j \in (i + 1)..Len(a) : a[j] = b[j]
         IN  IF a[i] > b[i] THEN 1 ELSE -1

BShl(a, n) == IF a = <<>> THEN <<>> ELSE Zeros(n) \o a

\* quotient and remainder of a by the natural d, 0 < d < 2^15, from the high limb
RECURSIVE DivLimbs(_, _, _, _, _)
DivLimbs(a, d, i, q, r) ==
    IF i = 0 THEN [q |-> OfLimbs(q), r |-> r]
    ELSE LET t == r * LimbBase + Limb(a, i)
         IN  DivLimbs(a, d, i - 1, <<t \div d>> \o q, t % d)

BDivSmall(a, d) == DivLimbs(a, d, NumLimbs(a), <<>>, 0)

\* a * (bits lo..hi of b): a shifted by the place of every 1, summed; the
\* range is halved so that the recursion stays shallow
RECURSIVE MulBits(_, _, _, _)
MulBits(a, b, lo, hi) ==
    IF lo = hi THEN (IF b[lo] = 1 THEN BShl(a, lo - 1) ELSE <<>>)
    ELSE BAdd(MulBits(a, b, lo, (lo + hi) \div 2),
              MulBits(a, b, (lo + hi) \div 2 + 1, hi))

BMul(a, b) == IF a = <<>> \/ b = <<>> THEN <<>> ELSE MulBits(a, b, 1, Len(b))

\* long division by d > 0 over the bits hi down to lo of a, r being the
\* remainder of the bits above hi: the quotient bits, high bit first, and the
\* remainder.  The range is halved so that the recursion stays shallow.
RECURSIVE DivBits(_, _, _, _, _)
DivBits(a, d, hi, lo, r) ==
    IF hi = lo
    THEN LET t == Trim(<<a[hi]>> \o r)
         IN  IF BCmp(t, d) >= 0 THEN [q |-> <<1>>, r |-> BSub(t, d)]
             ELSE [q |-> <<0>>, r |-> t]
    ELSE LET mid  == (hi + lo) \div 2
             high == DivBits(a, d, hi, mid + 1, r)
             low  == DivBits(a, d, mid, lo, high.r)
         IN  [q |-> high.q \o low.q, r |-> low.r]

\* quotient and remainder of a by d > 0: the Len(d) - 1 high bits of a are
\* below d and make the first remainder
BDiv(a, d) ==
    IF Len(a) < Len(d) THEN [q |-> <<>>, r |-> a]
    ELSE LET low == Len(a) - Len(d) + 1
             s   == DivBits(a, d, low, 1, SubSeq(a, low + 1, Len(a)))
         IN  [q |-> Trim([i \in 1..low |-> s.q[low + 1 - i]]), r |-> s.r]

TrailingZeros(a) ==
    IF a = <<>> THEN 0
    ELSE (CHOOSE i \in 1..Len(a) : a[i] = 1 /\ \A j \in 1..(i - 1) : a[j] = 0) - 1

(***************************************************************************)
(* f64                                                                     *)
(***************************************************************************)
\* number of significand bits of a binary64
MANTISSA_DIGITS == 53

NaN == [k |-> "nan"]

Inf(s) == [k |-> "inf", s |-> s]

Zero == [k |-> "fin", s |-> 1, m |-> <<>>, e |-> 0]

IsNaN(x) == x.k = "nan"

IsFin(x) == x.k = "fin"

\* the finite value s * m * 2^e in canonical form (m odd)
Norm(s, m, e) ==
    IF m = <<>> THEN Zero
    ELSE LET tz == TrailingZeros(m)
         IN  [k |-> "fin", s |-> s, m |-> SubSeq(m, tz + 1, Len(m)), e |-> e + tz]

\* s * m * 2^e rounded to 53 significant bits, to nearest, ties to even
Round(s, m, e) ==
    IF Len(m) <= MANTISSA_DIGITS THEN Norm(s, m, e)
    ELSE LET cut    == Len(m) - MANTISSA_DIGITS
             hi     == SubSeq(m, cut + 1, Len(m))
             guard  == m[cut]
             sticky == \E i \in 1..(cut - 1) : m[i] = 1
             up     == guard = 1 /\ (sticky \/ hi[1] = 1)
         IN  Norm(s, IF up THEN BAdd(hi, <<1>>) ELSE hi, e + cut)

FromInt(n) == IF n < 0 THEN Norm(-1, OfNat(-n), 0) ELSE Norm(1, OfNat(n), 0)

Neg(x) ==
    IF x.k = "nan" THEN NaN
    ELSE IF x.k = "inf" THEN Inf(-x.s)
    ELSE IF x.m = <<>> THEN x
    ELSE [x EXCEPT !.s = -x.s]

Abs(x) ==
    IF x.k = "nan" THEN NaN
    ELSE IF x.k = "inf" THEN Inf(1)
    ELSE [x EXCEPT !.s = 1]

\* the exact sum of two finite values, as sign, magnitude and exponent
ExactSum(x, y) ==
    LET e0 == IF x.e < y.e THEN x.e ELSE y.e
        mx == BShl(x.m, x.e - e0)
        my == BShl(y.m, y.e - e0)
    IN  IF x.s = y.s THEN [s |-> x.s, m |-> BAdd(mx, my), e |-> e0]
        ELSE IF BCmp(mx, my) >= 0 THEN [s |-> x.s, m |-> BSub(mx, my), e |-> e0]
        ELSE [s |-> y.s, m |-> BSub(my, mx), e |-> e0]

Add(x, y) ==
    IF x.k = "nan" \/ y.k = "nan" THEN NaN
    ELSE IF x.k = "inf" /\ y.k = "inf" THEN (IF x.s = y.s THEN x ELSE NaN)
    ELSE IF x.k = "inf" THEN x
    ELSE IF y.k = "inf" THEN y
    ELSE LET r == ExactSum(x, y) IN Round(r.s, r.m, r.e)

Sub(x, y) == Add(x, Neg(y))

\* -1, 0, 1 as x < y, x = y, x > y, for values that are not NaN
Cmp(x, y) ==
    IF x.k = "inf" \/ y.k = "inf"
    THEN LET vx == IF x.k = "inf" THEN x.s ELSE 0
             vy == IF y.k = "inf" THEN y.s ELSE 0
         IN  IF vx < vy THEN -1 ELSE IF vx > vy THEN 1 ELSE 0
    ELSE LET r == ExactSum(x, Neg(y))
         IN  IF r.m = <<>> THEN 0 ELSE r.s

Lt(x, y) == ~IsNaN(x) /\ ~IsNaN(y) /\ Cmp(x, y) < 0

Le(x, y) == ~IsNaN(x) /\ ~IsNaN(y) /\ Cmp(x, y) <= 0

Gt(x, y) == ~IsNaN(x) /\ ~IsNaN(y) /\ Cmp(x, y) > 0

Eq(x, y) == ~IsNaN(x) /\ ~IsNaN(y) /\ Cmp(x, y) = 0

\* x / y for a divisor whose odd significand fits an integer (100, a count of
\* terms, a power of ten): the quotient is computed to 64 fractional bits and
\* a sticky bit, then rounded
Div(x, y) ==
    IF x.k = "nan" \/ y.k = "nan" THEN NaN
    ELSE IF x.k = "inf" THEN (IF y.k = "inf" THEN NaN ELSE Inf(x.s * y.s))
    ELSE IF y.k = "inf" THEN Zero
    ELSE IF y.m = <<>> THEN (IF x.m = <<>> THEN NaN ELSE Inf(x.s))
    ELSE IF x.m = <<>> THEN Zero
    ELSE LET d  == BDivSmall(BShl(x.m, 64), ToNat(y.m))
             st == IF d.r = 0 THEN 0 ELSE 1
         IN  Round(x.s * y.s, <<st>> \o d.q, x.e - y.e - 65)

\* x * y: the exact product, rounded
Mul(x, y) ==
    IF x.k = "nan" \/ y.k = "nan" THEN NaN
    ELSE IF x.k = "inf" \/ y.k = "inf"
    THEN (IF (x.k = "fin" /\ x.m = <<>>) \/ (y.k = "fin" /\ y.m = <<>>) THEN NaN
          ELSE Inf(x.s * y.s))
    ELSE IF x.m = <<>> \/ y.m = <<>> THEN Zero
    ELSE Round(x.s * y.s, BMul(x.m, y.m), x.e + y.e)

\* x / y for any finite divisor: the significand of x is shifted so that the
\* quotient of the significands has 56 or 57 bits, and a sticky bit is set
\* for the remainder, then rounded
Quotient(x, y) ==
    IF x.k = "nan" \/ y.k = "nan" THEN NaN
    ELSE IF x.k = "inf" THEN (IF y.k = "inf" THEN NaN ELSE Inf(x.s * y.s))
    ELSE IF y.k = "inf" THEN Zero
    ELSE IF y.m = <<>> THEN (IF x.m = <<>> THEN NaN ELSE Inf(x.s))
    ELSE IF x.m = <<>> THEN Zero
    ELSE LET sh == 56 + Len(y.m) - Len(x.m)
             d  == BDiv(BShl(x.m, sh), y.m)
             st == IF d.r = <<>> THEN 0 ELSE 1
         IN  Round(x.s * y.s, <<st>> \o d.q, x.e - y.e - sh - 1)

\* a decimal literal of the source, digits * 10^-places: the nearest f64
Literal(digits, places) == Quotient(FromInt(digits), FromInt(10 ^ places))

\* f64::powf(2.5) of a power of four, 4^k: the result, 32^k, is a power of
\* two and pow returns it exactly
powf25(x) == [x EXCEPT !.e = (5 * x.e) \div 2]

\* f64::EPSILON, 2^-52
EPSILON == [k |-> "fin", s |-> 1, m |-> <<1>>, e |-> -52]

(***************************************************************************)
(* Text.  A string is a sequence of one-character strings.                 *)
(***************************************************************************)
\* str::split: the pieces of s between the occurrences of the character c
RECURSIVE Split(_, _)
Split(s, c) ==
    IF \A i \in 1..Len(s) : s[i] # c THEN <<s>>
    ELSE LET i == CHOOSE i \in 1..Len(s) : s[i] = c /\ \A j \in 1..(i - 1) : s[j] # c
         IN  <<SubSeq(s, 1, i - 1)>> \o Split(SubSeq(s, i + 1, Len(s)), c)

Digits == <<"0", "1", "2", "3", "4", "5", "6", "7", "8", "9">>

IsDigit(ch) == \E d \in 1..10 : Digits[d] = ch

DigitVal(ch) == (CHOOSE d \in 1..10 : Digits[d] = ch) - 1

Lower(ch) == IF ch = "N" THEN "n" ELSE IF ch = "A" THEN "a" ELSE ch

RECURSIVE DecimalValue(_)
DecimalValue(ds) ==
    IF ds = <<>> THEN 0 ELSE 10 * DecimalValue(SubSeq(ds, 1, Len(ds) - 1)) + DigitVal(ds[Len(ds)])

Ok(v) == [ok |-> TRUE, val |-> v]

Err(e) == [ok |-> FALSE, err |-> e]

\* an error whose message is a format string with arguments
ErrF(e, args) == [ok |-> FALSE, err |-> e, args |-> args]

\* a call that does not return: panic!, unreachable!
Panic(e) == [ok |-> FALSE, err |-> e, panic |-> TRUE]

IsPanic(r) == "panic" \in DOMAIN r

\* str::parse::<f64>: an optional sign, then "nan", or decimal digits with at
\* most one point and at least one digit, converted to the nearest f64 (the
\* digits as an integer over a power of ten, one correctly rounded division).
\* Exponents and infinities are not written with the characters of Chars.
f64_from_str(s) ==
    LET neg  == s # <<>> /\ s[1] = "-"
        body == IF neg THEN Tail(s) ELSE s
        pts  == {i \in 1..Len(body) : body[i] = "."}
        ds   == SelectSeq(body, IsDigit)
        frac == IF pts = {} THEN 0 ELSE Len(body) - (CHOOSE i \in pts : TRUE)
        v    == Div(FromInt(DecimalValue(ds)), FromInt(10 ^ frac))
    IN  IF [i \in 1..Len(body) |-> Lower(body[i])] = <<"n", "a", "n">> THEN Ok(NaN)
        ELSE IF /\ ds # <<>>
                /\ Cardinality(pts) <= 1
                /\ \A i \in 1..Len(body) : IsDigit(body[i]) \/ body[i] = "."
        THEN Ok(IF neg THEN Neg(v) ELSE v)
        ELSE Err("invalid float literal")

\* util::parse_num
parse_num(input) ==
    LET r == f64_from_str(input)
    IN  IF r.ok THEN r ELSE ErrF("Can't parse {} as a number", <<input>>)

(***************************************************************************)
(* The registry of reference gases (gases.rs), read only.  The critical    *)
(* temperature, critical pressure and acentric factor are small stand-ins, *)
(* fourth powers and squares so that the roots eos.rs takes are rational.  *)
(***************************************************************************)
GASES ==
    << [id |-> <<"N", "2">>, name |-> "Nitrogen", tc |-> 1,  pc |-> 1, w |-> 0],
       [id |-> <<"O", "2">>, name |-> "Oxygen",   tc |-> 16, pc |-> 64, w |-> 0],
       [id |-> <<"H", "2">>, name |-> "Hydrogen", tc |-> 1,  pc |-> 4, w |-> 1] >>

None == [some |-> FALSE]

Some(v) == [some |-> TRUE, val |-> v]

\* GASES.iter().find(|g| g.id == id)
find_gas(id) ==
    IF \A i \in 1..Len(GASES) : GASES[i].id # id THEN None
    ELSE Some(GASES[CHOOSE i \in 1..Len(GASES) :
                        GASES[i].id = id /\ \A j \in 1..(i - 1) : GASES[j].id # id])

(***************************************************************************)
(* Gas::from_string                                                        *)
(***************************************************************************)
Pure(g) == [tag |-> "Pure", gas |-> g]

Mixture(cs) == [tag |-> "Mixture", comps |-> cs]

\* const NO_FRAC: f64 = -1f64
NO_FRAC == FromInt(-1)

One == FromInt(1)

Hundred == FromInt(100)

\* ParseComp with the sign test written "frac < 0": a fraction of zero passes
ParseComp_ZeroAccepted(comp, input) ==
    LET frac_gas == Split(comp, "%")
        gas      == find_gas(frac_gas[Len(frac_gas)])
        frac     == parse_num(frac_gas[1])
    IN  IF frac_gas = <<>> THEN Panic("unreachable")
        ELSE IF Len(frac_gas) > 2
        THEN ErrF("\"{}\" from \"{}\" is invalid gas spec", <<comp, input>>)
        ELSE IF ~gas.some THEN Err("The requested gas is not referenced")
        ELSE IF Len(frac_gas) = 1 THEN Ok(<<NO_FRAC, gas.val>>)
        ELSE IF ~frac.ok THEN frac
        ELSE IF Lt(frac.val, Zero) THEN Err("molar fraction cannot be negative")
        ELSE Ok(<<Div(frac.val, Hundred), gas.val>>)

\* ParseComp parsing the fraction before it looks the id up
ParseComp_FractionFirst(comp, input) ==
    LET frac_gas == Split(comp, "%")
        gas      == find_gas(frac_gas[Len(frac_gas)])
        frac     == parse_num(frac_gas[1])
    IN  IF frac_gas = <<>> THEN Panic("unreachable")
        ELSE IF Len(frac_gas) > 2
        THEN ErrF("\"{}\" from \"{}\" is invalid gas spec", <<comp, input>>)
        ELSE IF Len(frac_gas) = 2 /\ ~frac.ok THEN frac
        ELSE IF ~gas.some THEN Err("The requested gas is not referenced")
        ELSE IF Len(frac_gas) = 1 THEN Ok(<<NO_FRAC, gas.val>>)
        ELSE IF Le(frac.val, Zero) THEN Err("molar fraction cannot be negative")
        ELSE Ok(<<Div(frac.val, Hundred), gas.val>>)

\* one pass of "for comp in comps": the component of comp, or the error returned
ParseComp(comp, input) ==
    LET frac_gas == Split(comp, "%")
        gas      == find_gas(frac_gas[Len(frac_gas)])
        frac     == parse_num(frac_gas[1])
    IN  IF frac_gas = <<>> THEN Panic("unreachable")
        ELSE IF Len(frac_gas) > 2
        THEN ErrF("\"{}\" from \"{}\" is invalid gas spec", <<comp, input>>)
        ELSE IF ~gas.some THEN Err("The requested gas is not referenced")
        ELSE IF Len(frac_gas) = 1 THEN Ok(<<NO_FRAC, gas.val>>)
        ELSE IF ~frac.ok THEN frac
        ELSE IF Le(frac.val, Zero) THEN Err("molar fraction cannot be negative")
        ELSE Ok(<<Div(frac.val, Hundred), gas.val>>)

\* ParseComps pushing each component at the front of gas_comps
RECURSIVE ParseComps_Reversed(_, _, _, _)
ParseComps_Reversed(comps, i, gas_comps, input) ==
    IF i > Len(comps) THEN Ok(gas_comps)
    ELSE LET c == ParseComp(comps[i], input)
         IN  IF ~c.ok THEN c
             ELSE ParseComps_Reversed(comps, i + 1, <<c.val>> \o gas_comps, input)

\* the loop over comps from comps[i] on, gas_comps being the components pushed
\* so far: the first error, or all the components
RECURSIVE ParseComps(_, _, _, _)
ParseComps(comps, i, gas_comps, input) ==
    IF i > Len(comps) THEN Ok(gas_comps)
    ELSE LET c == ParseComp(comps[i], input)
         IN  IF ~c.ok THEN c
             ELSE ParseComps(comps, i + 1, Append(gas_comps, c.val), input)

\* (total_frac, num_no_frac) of the components from gas_comps[i] on
RECURSIVE Totals(_, _, _, _)
Totals(gas_comps, i, total, num) ==
    IF i > Len(gas_comps) THEN [total |-> total, num |-> num]
    ELSE IF Eq(gas_comps[i][1], NO_FRAC)
    THEN Totals(gas_comps, i + 1, total, num + 1)
    ELSE Totals(gas_comps, i + 1, Add(total, gas_comps[i][1]), num)

\* Infer without the test of a total of 1 with fractions left to infer
Infer_NoFullCheck(gas_comps) ==
    LET t           == Totals(gas_comps, 1, Zero, 0)
        total_frac  == t.total
        num_no_frac == t.num
        missing     == Div(Sub(One, total_frac), FromInt(num_no_frac))
    IN  IF Gt(total_frac, One)
        THEN Err("total molar fraction is too high")
        ELSE IF Lt(total_frac, One) /\ num_no_frac = 0
        THEN Err("total molar fraction is too low")
        ELSE Ok(Mixture([i \in 1..Len(gas_comps) |->
                            IF Eq(gas_comps[i][1], NO_FRAC)
                            THEN <<missing, gas_comps[i][2]>>
                            ELSE gas_comps[i]]))

\* Infer sharing the rest among all the components, not among those it is
\* inferred for
Infer_SharedAmongAll(gas_comps) ==
    LET t           == Totals(gas_comps, 1, Zero, 0)
        total_frac  == t.total
        num_no_frac == t.num
        missing     == Div(Sub(One, total_frac), FromInt(Len(gas_comps)))
    IN  IF \/ Gt(total_frac, One)
           \/ (Lt(Abs(Sub(total_frac, One)), EPSILON) /\ num_no_frac > 0)
        THEN Err("total molar fraction is too high")
        ELSE IF Lt(total_frac, One) /\ num_no_frac = 0
        THEN Err("total molar fraction is too low")
        ELSE Ok(Mixture([i \in 1..Len(gas_comps) |->
                            IF Eq(gas_comps[i][1], NO_FRAC)
                            THEN <<missing, gas_comps[i][2]>>
                            ELSE gas_comps[i]]))

\* the check of the total and the inference of the missing fractions
Infer(gas_comps) ==
    LET t           == Totals(gas_comps, 1, Zero, 0)
        total_frac  == t.total
        num_no_frac == t.num
        missing     == Div(Sub(One, total_frac), FromInt(num_no_frac))
    IN  IF \/ Gt(total_frac, One)
           \/ (Lt(Abs(Sub(total_frac, One)), EPSILON) /\ num_no_frac > 0)
        THEN Err("total molar fraction is too high")
        ELSE IF Lt(total_frac, One) /\ num_no_frac = 0
        THEN Err("total molar fraction is too low")
        ELSE Ok(Mixture([i \in 1..Len(gas_comps) |->
                            IF Eq(gas_comps[i][1], NO_FRAC)
                            THEN <<missing, gas_comps[i][2]>>
                            ELSE gas_comps[i]]))

from_string(input) ==
    LET comps == Split(input, "+")
    IN  IF comps = <<>> THEN Panic("unreachable")
        ELSE IF Len(comps) = 1
        THEN LET gas == find_gas(comps[1])
             IN  IF gas.some THEN Ok(Pure(gas.val))
                 ELSE Err("The requested gas is not referenced")
        ELSE LET gas_comps == ParseComps(comps, 1, <<>>, input)
             IN  IF ~gas_comps.ok THEN gas_comps ELSE Infer(gas_comps.val)

(***************************************************************************)
(* eos.rs computes on f64 with sums, products, quotients, square roots and *)
(* powf, and what is stated of it are identities of real arithmetic.  That *)
(* part of the model computes exactly.  The decimal constants that enter   *)
(* the parameters a and b only as factors (R and the four EOS factors) are *)
(* kept as symbols: a monomial is a rational n/d in lowest terms times a   *)
(* product of powers of the symbols (u gives the power of each), and a     *)
(* value is a sum of monomials with different powers, held as their set    *)
(* (zero is the empty set).  eos.rs multiplies, divides and takes the      *)
(* square root of monomials only, and the square root of squares only      *)
(* with the registry and the temperatures below.                           *)
(***************************************************************************)
Syms == {"R", "0.42748023", "0.08664035", "0.45724", "0.0778"}

Plain == [c \in Syms |-> 0]

RECURSIVE GCD(_, _)
GCD(i, j) == IF j = 0 THEN i ELSE GCD(j, i % j)

AbsInt(i) == IF i < 0 THEN -i ELSE i

\* the monomial (n/d) * u in lowest terms, d > 0
Mono(n, d, u) ==
    LET g == GCD(AbsInt(n), AbsInt(d))
    IN  [n |-> (IF d < 0 THEN -n ELSE n) \div g, d |-> AbsInt(d) \div g, u |-> u]

\* the product of two monomials, in lowest terms as they are
MonoMul(x, y) ==
    LET g1 == GCD(AbsInt(x.n), y.d)
        g2 == GCD(AbsInt(y.n), x.d)
    IN  [n |-> (x.n \div g1) * (y.n \div g2), d |-> (x.d \div g2) * (y.d \div g1),
         u |-> [c \in Syms |-> x.u[c] + y.u[c]]]

\* the sum of two monomials of the same powers
MonoAdd(x, y) ==
    LET l == (x.d \div GCD(x.d, y.d)) * y.d
    IN  Mono(x.n * (l \div x.d) + y.n * (l \div y.d), l, x.u)

\* the monomial of a value that has one
The(x) == CHOOSE m \in x : x = {m}

Rat(n, d) == IF n = 0 THEN {} ELSE {Mono(n, d, Plain)}

Int2Q(n) == Rat(n, 1)

Sym(c) == {[n |-> 1, d |-> 1, u |-> [x \in Syms |-> IF x = c THEN 1 ELSE 0]]}

QNeg(x) == {[m EXCEPT !.n = -m.n] : m \in x}

QMul(x, y) == IF x = {} \/ y = {} THEN {} ELSE {MonoMul(The(x), The(y))}

\* x / y, y # 0
QDiv(x, y) ==
    LET m == The(y)
    IN  IF x = {} THEN {}
        ELSE {MonoMul(The(x), Mono(m.d, m.n, [c \in Syms |-> -m.u[c]]))}

QAdd(x, y) ==
    LET part(z, u) == IF \E m \in z : m.u = u THEN CHOOSE m \in z : m.u = u
                      ELSE [n |-> 0, d |-> 1, u |-> u]
        sums       == {MonoAdd(part(x, m.u), part(y, m.u)) : m \in x \cup y}
    IN  {m \in sums : m.n # 0}

QSub(x, y) == QAdd(x, QNeg(y))

\* -1, 0 or 1 as x is negative, zero or positive, x a number
Sign(x) ==
    IF x = {} THEN 0
    ELSE IF (CHOOSE m \in x : x = {m} /\ m.u = Plain).n < 0 THEN -1 ELSE 1

QLt(x, y) == Sign(QSub(x, y)) < 0

QLe(x, y) == Sign(QSub(x, y)) <= 0

\* f64::max
QMax(x, y) == IF QLt(x, y) THEN y ELSE x

\* the natural r in lo..hi with r * r = n, if there is one
RECURSIVE RootBetween(_, _, _)
RootBetween(n, lo, hi) ==
    LET mid == (lo + hi) \div 2
    IN  IF mid * mid = n \/ lo >= hi THEN mid
        ELSE IF mid * mid < n THEN RootBetween(n, mid + 1, hi)
        ELSE RootBetween(n, lo, mid - 1)

\* f64::sqrt of a square
QSqrt(x) ==
    IF x = {} THEN {}
    ELSE LET m == The(x)
         IN  CHOOSE r \in { {Mono(RootBetween(m.n, 0, Min(m.n, 46340)),
                                  RootBetween(m.d, 0, Min(m.d, 46340)),
                                  [c \in Syms |-> m.u[c] \div 2])} } : QMul(r, r) = x

\* f64::powf(x, 2.5)
QPowf25(x) == QMul(QMul(x, x), QSqrt(x))

\* const R: f64 = 8.31446262
R == Sym("R")

(***************************************************************************)
(* eos.rs                                                                  *)
(***************************************************************************)
Eos == {"VanDerWaals", "RedlichKwong", "SoaveRedlichKwong", "PengRobinson"}

\* impl EosGas for PureGas: fn a
PureGas_a(self, eos, t) ==
    LET tc == Int2Q(self.tc)
        pc == Int2Q(self.pc)
        w  == Int2Q(self.w)
    IN  IF eos = "VanDerWaals"
        THEN QDiv(QMul(QMul(QMul(QMul(Int2Q(27), R), R), tc), tc), QMul(Int2Q(64), pc))
        ELSE IF eos = "RedlichKwong"
        THEN QDiv(QMul(QMul(QMul(Sym("0.42748023"), R), R), QPowf25(tc)), pc)
        ELSE IF eos = "SoaveRedlichKwong"
        THEN LET m      == QSub(QAdd(Rat(48, 100), QMul(Rat(1574, 1000), w)),
                                QMul(QMul(Rat(176, 1000), w), w))
                 alpha  == QAdd(Int2Q(1), QMul(m, QSub(Int2Q(1), QSqrt(QDiv(t, tc)))))
                 alpha2 == QMul(alpha, alpha)
             IN  QDiv(QMul(QMul(QMul(QMul(QMul(alpha2, Sym("0.42748023")), R), R), tc), tc), pc)
        ELSE LET m      == IF QLe(w, Rat(491, 1000))
                           THEN QSub(QAdd(Rat(37464, 100000), QMul(Rat(156226, 100000), w)),
                                     QMul(QMul(Rat(26992, 100000), w), w))
                           ELSE QSub(QSub(QAdd(Rat(379642, 1000000),
                                               QMul(Rat(1487503, 1000000), w)),
                                          QMul(QMul(Rat(164423, 1000000), w), w)),
                                     QMul(QMul(QMul(Rat(16666, 1000000), w), w), w))
                 alpha  == QAdd(Int2Q(1), QMul(m, QSub(Int2Q(1), QSqrt(QDiv(t, tc)))))
                 alpha2 == QMul(alpha, alpha)
             IN  QDiv(QMul(QMul(QMul(QMul(QMul(alpha2, Sym("0.45724")), R), R), tc), tc), pc)

\* impl EosGas for PureGas: fn b
PureGas_b(self, eos) ==
    LET tc == Int2Q(self.tc)
        pc == Int2Q(self.pc)
    IN  IF eos = "VanDerWaals" THEN QDiv(QMul(R, tc), QMul(Int2Q(8), pc))
        ELSE IF eos \in {"RedlichKwong", "SoaveRedlichKwong"}
        THEN QDiv(QMul(QMul(Sym("0.08664035"), R), tc), pc)
        ELSE QDiv(QMul(QMul(Sym("0.0778"), R), tc), pc)

\* impl GasComp for (f64, PureGas)
molar_fraction(c) == c[1]

pure_gas(c) == c[2]

\* the inner loop of GasMixture::a from comps[j] on, res being the sum so far
RECURSIVE MixInner(_, _, _, _, _, _)
MixInner(comps, i, j, res, eos, t) ==
    IF j > Len(comps) THEN res
    ELSE LET ai == PureGas_a(pure_gas(comps[i]), eos, t)
             aj == PureGas_a(pure_gas(comps[j]), eos, t)
         IN  MixInner(comps, i, j + 1,
                      QAdd(res, QMul(QMul(molar_fraction(comps[i]), molar_fraction(comps[j])),
                                     QSqrt(QMul(ai, aj)))),
                      eos, t)

\* the outer loop of GasMixture::a from comps[i] on
RECURSIVE MixOuter(_, _, _, _, _)
MixOuter(comps, i, res, eos, t) ==
    IF i > Len(comps) THEN res
    ELSE MixOuter(comps, i + 1, MixInner(comps, i, 1, res, eos, t), eos, t)

\* the mixing rule with the row of the first component only
GasMixture_a_FirstRowOnly(self, eos, t) == MixInner(self.comps, 1, 1, Rat(0, 1), eos, t)

\* impl EosGas for GasMixture: fn a
GasMixture_a(self, eos, t) == MixOuter(self.comps, 1, Rat(0, 1), eos, t)

\* the loop of GasMixture::b from comps[i] on
RECURSIVE MixB(_, _, _, _)
MixB(comps, i, res, eos) ==
    IF i > Len(comps) THEN res
    ELSE MixB(comps, i + 1,
              QAdd(res, QMul(molar_fraction(comps[i]), PureGas_b(pure_gas(comps[i]), eos))),
              eos)

\* b of the last component, whatever the molar fractions
GasMixture_b_LastComponent(self, eos) == PureGas_b(pure_gas(self.comps[Len(self.comps)]), eos)

\* impl EosGas for GasMixture: fn b
GasMixture_b(self, eos) == MixB(self.comps, 1, Rat(0, 1), eos)

\* impl EosGas for Gas
Gas_a(self, eos, t) ==
    IF self.tag = "Pure" THEN PureGas_a(self.gas, eos, t) ELSE GasMixture_a(self, eos, t)

Gas_b(self, eos) ==
    IF self.tag = "Pure" THEN PureGas_b(self.gas, eos) ELSE GasMixture_b(self, eos)

\* the cubic of VanDerWaals for every variant
Coefficients_AllVanDerWaals(self, eos, p, t) ==
    LET a == QDiv(QMul(Gas_a(self, eos, t), p), QMul(QMul(QMul(R, R), t), t))
        b == QDiv(QMul(Gas_b(self, eos), p), QMul(R, t))
    IN  <<Int2Q(1), QSub(QNeg(b), Int2Q(1)), a, QMul(QNeg(a), b)>>

\* EosGas::z, to the call of the solver: (a3, a2, a1, a0).  Each let of the
\* code is a bound variable: a and b are computed once, then used.
Coefficients(self, eos, p, t) ==
    CHOOSE c \in
        IF eos = "VanDerWaals"
        THEN { <<Int2Q(1), QSub(QNeg(b), Int2Q(1)), a, QMul(QNeg(a), b)>> :
                 a \in {QDiv(QMul(Gas_a(self, eos, t), p), QMul(QMul(QMul(R, R), t), t))},
                 b \in {QDiv(QMul(Gas_b(self, eos), p), QMul(R, t))} }
        ELSE IF eos = "RedlichKwong"
        THEN { <<Int2Q(1), QNeg(Int2Q(1)), QSub(QSub(a, QMul(b, b)), b), QMul(QNeg(a), b)>> :
                 a \in {QDiv(QMul(Gas_a(self, eos, t), p), QMul(QMul(R, R), QPowf25(t)))},
                 b \in {QDiv(QMul(Gas_b(self, eos), p), QMul(R, t))} }
        ELSE IF eos = "SoaveRedlichKwong"
        THEN { <<Int2Q(1), QNeg(Int2Q(1)), QSub(QSub(a, QMul(b, b)), b), QMul(QNeg(a), b)>> :
                 a \in {QDiv(QMul(Gas_a(self, eos, t), p), QMul(QMul(QMul(R, R), t), t))},
                 b \in {QDiv(QMul(Gas_b(self, eos), p), QMul(R, t))} }
        ELSE { <<Int2Q(1),
                 QSub(b, Int2Q(1)),
                 QAdd(QSub(QMul(QMul(QNeg(Int2Q(3)), b), b), QMul(Int2Q(2), b)), a),
                 QSub(QAdd(QMul(QMul(b, b), b), QMul(b, b)), QMul(a, b))>> :
                 a \in {QDiv(QMul(Gas_a(self, eos, t), p), QMul(QMul(QMul(R, R), t), t))},
                 b \in {QDiv(QMul(Gas_b(self, eos), p), QMul(R, t))} }
        : TRUE

\* the last root of the array, as if the solver returned them ascending
SelectRoot_Last(roots) ==
    IF Len(roots) = 0 THEN Panic("could not find Z-factor root")
    ELSE Ok(roots[Len(roots)])

\* EosGas::z, from the answer of the solver: roots is the array of the Roots
\* returned, Roots::No to Roots::Three by its length
SelectRoot(roots) ==
    IF Len(roots) = 0 THEN Panic("could not find Z-factor root")
    ELSE IF Len(roots) = 1 THEN Ok(roots[1])
    ELSE IF Len(roots) = 2 THEN Ok(QMax(roots[1], roots[2]))
    ELSE IF Len(roots) = 3 THEN Ok(QMax(QMax(roots[1], roots[2]), roots[3]))
    ELSE Panic("unreachable")

(***************************************************************************)
(* rk.rs, the Redlich-Kwong equation alone, in the same exact arithmetic.  *)
(* Its constants R, RK_A and RK_B are the decimals eos.rs writes, hence    *)
(* the same symbols.                                                       *)
(***************************************************************************)
RK_A == Sym("0.42748023")

RK_B == Sym("0.08664035")

\* impl RkGas for PureGas: fn a_const; R.powi(2) is R * R
RkPureGas_a_const(self) ==
    QDiv(QMul(QMul(RK_A, QMul(R, R)), QPowf25(Int2Q(self.tc))), Int2Q(self.pc))

\* impl RkGas for PureGas: fn b_const
RkPureGas_b_const(self) == QDiv(QMul(QMul(RK_B, R), Int2Q(self.tc)), Int2Q(self.pc))

\* the inner loop of GasMixture::a_const from comps[j] on
RECURSIVE RkMixInner(_, _, _, _)
RkMixInner(comps, i, j, res) ==
    IF j > Len(comps) THEN res
    ELSE LET ai == RkPureGas_a_const(pure_gas(comps[i]))
             aj == RkPureGas_a_const(pure_gas(comps[j]))
         IN  RkMixInner(comps, i, j + 1,
                        QAdd(res, QMul(QMul(molar_fraction(comps[i]),
                                            molar_fraction(comps[j])),
                                       QSqrt(QMul(ai, aj)))))

\* the outer loop of GasMixture::a_const from comps[i] on
RECURSIVE RkMixOuter(_, _, _)
RkMixOuter(comps, i, res) ==
    IF i > Len(comps) THEN res
    ELSE RkMixOuter(comps, i + 1, RkMixInner(comps, i, 1, res))

\* impl RkGas for GasMixture: fn a_const
RkGasMixture_a_const(self) == RkMixOuter(self.comps, 1, Rat(0, 1))

\* the loop of GasMixture::b_const from comps[i] on
RECURSIVE RkMixB(_, _, _)
RkMixB(comps, i, res) ==
    IF i > Len(comps) THEN res
    ELSE RkMixB(comps, i + 1,
                QAdd(res, QMul(molar_fraction(comps[i]),
                               RkPureGas_b_const(pure_gas(comps[i])))))

\* impl RkGas for GasMixture: fn b_const
RkGasMixture_b_const(self) == RkMixB(self.comps, 1, Rat(0, 1))

\* impl RkGas for Gas
RkGas_a_const(self) ==
    IF self.tag = "Pure" THEN RkPureGas_a_const(self.gas) ELSE RkGasMixture_a_const(self)

RkGas_b_const(self) ==
    IF self.tag = "Pure" THEN RkPureGas_b_const(self.gas) ELSE RkGasMixture_b_const(self)

\* RkGas::a
RkGas_a(self, p, t) == QDiv(QMul(RkGas_a_const(self), p), QMul(QMul(R, R), QPowf25(t)))

\* RkGas::b
RkGas_b(self, p, t) == QDiv(QMul(RkGas_b_const(self), p), QMul(R, t))

\* RkGas::z, to the call of the solver: (a3, a2, a1, a0)
RkCoefficients(self, p, t) ==
    CHOOSE c \in
        { <<Int2Q(1), QNeg(Int2Q(1)), QSub(QSub(a, QMul(b, b)), b), QMul(QNeg(a), b)>> :
            a \in {RkGas_a(self, p, t)}, b \in {RkGas_b(self, p, t)} }
        : TRUE

\* the first root of the array
RkSelectRoot_First(roots) ==
    IF Len(roots) = 0 THEN Panic("could not find Z-factor root")
    ELSE IF Len(roots) <= 3 THEN Ok(roots[1])
    ELSE Panic("unreachable")

\* RkGas::z, from the answer of the solver: the root of Roots::One, roots[1]
\* of Roots::Two, roots[2] of Roots::Three (indices from 0)
RkSelectRoot(roots) ==
    IF Len(roots) = 0 THEN Panic("could not find Z-factor root")
    ELSE IF Len(roots) = 1 THEN Ok(roots[1])
    ELSE IF Len(roots) = 2 THEN Ok(roots[2])
    ELSE IF Len(roots) = 3 THEN Ok(roots[3])
    ELSE Panic("unreachable")

(***************************************************************************)
(* The two cubics as the code computes them, on f64, for a pure gas: every *)
(* product and quotient rounds, so the order of the factors counts.  The   *)
(* mixing rules take f64 square roots and are computed exactly only.       *)
(***************************************************************************)
\* const R: f64 = 8.31446262, in rk.rs and in eos.rs
F64_R == Literal(831446262, 8)

\* const RK_A: f64 = 0.42748023, the literal 0.42748023 of eos.rs
F64_RK_A == Literal(42748023, 8)

\* const RK_B: f64 = 0.08664035, the literal 0.08664035 of eos.rs
F64_RK_B == Literal(8664035, 8)

\* the f64 of a rational without symbols
F64(x) == IF x = {} THEN Zero ELSE Quotient(FromInt(The(x).n), FromInt(The(x).d))

\* impl RkGas for PureGas: RK_A * R.powi(2) * self.tc.powf(2.5) / self.pc
F64_RkPureGas_a_const(self) ==
    Quotient(Mul(Mul(F64_RK_A, Mul(F64_R, F64_R)), powf25(FromInt(self.tc))),
             FromInt(self.pc))

\* impl RkGas for PureGas: RK_B * R * self.tc / self.pc
F64_RkPureGas_b_const(self) ==
    Quotient(Mul(Mul(F64_RK_B, F64_R), FromInt(self.tc)), FromInt(self.pc))

\* RkGas::z of a pure gas, to the call of the solver
F64_RkCoefficients(self, p, t) ==
    CHOOSE c \in
        { <<One, Neg(One), Sub(Sub(a, Mul(b, b)), b), Mul(Neg(a), b)>> :
            a \in {Quotient(Mul(F64_RkPureGas_a_const(self), F64(p)),
                            Mul(Mul(F64_R, F64_R), powf25(F64(t))))},
            b \in {Quotient(Mul(F64_RkPureGas_b_const(self), F64(p)),
                            Mul(F64_R, F64(t)))} }
        : TRUE

\* impl EosGas for PureGas, Eos::RedlichKwong:
\* 0.42748023 * R * R * self.tc.powf(2.5) / self.pc
F64_PureGas_a(self) ==
    Quotient(Mul(Mul(Mul(F64_RK_A, F64_R), F64_R), powf25(FromInt(self.tc))),
             FromInt(self.pc))

\* impl EosGas for PureGas, Eos::RedlichKwong: 0.08664035 * R * self.tc / self.pc
F64_PureGas_b(self) ==
    Quotient(Mul(Mul(F64_RK_B, F64_R), FromInt(self.tc)), FromInt(self.pc))

\* EosGas::z of a pure gas with Eos::RedlichKwong, to the call of the solver
F64_Coefficients(self, p, t) ==
    CHOOSE c \in
        { <<One, Neg(One), Sub(Sub(a, Mul(b, b)), b), Mul(Neg(a), b)>> :
            a \in {Quotient(Mul(F64_PureGas_a(self), F64(p)),
                            Mul(Mul(F64_R, F64_R), powf25(F64(t))))},
            b \in {Quotient(Mul(F64_PureGas_b(self), F64(p)),
                            Mul(F64_R, F64(t)))} }
        : TRUE

(***************************************************************************)
(* The inputs of Gas::from_string.  A specification is written as terms    *)
(* joined by "+", a term as pieces joined by "%": the pieces before the    *)
(* last one (pre) and the last one (id).  A piece written as a number      *)
(* has kind "num" and carries the integer it denotes; the other kinds are    *)
(* "nan" and "bad" (not a number).                                         *)
(***************************************************************************)
MaxTerms == 3

Piece(text, kind, val) == [text |-> text, kind |-> kind, val |-> val]

Number(text, val) == Piece(text, "num", val)

N2 == <<"N", "2">>

O2 == <<"O", "2">>

Term(pre, id) == [pre |-> pre, id |-> id]

\* terms that pass the validation of a term, but for the last three
WithFraction ==
    { Term(<<Number(<<"8", "0">>, 80)>>, N2), Term(<<Number(<<"2", "0">>, 20)>>, O2),
      Term(<<Number(<<"7", "0">>, 70)>>, N2), Term(<<Number(<<"1", "0">>, 10)>>, O2),
      Term(<<Number(<<"1", "0", "0">>, 100)>>, N2),
      Term(<<Piece(<<"N", "a", "N">>, "nan", 0)>>, O2),
      Term(<<Number(<<"0">>, 0)>>, O2), Term(<<Number(<<"-", "5">>, -5)>>, N2),
      Term(<<Number(<<"8", "0">>, 80)>>, <<"X", "2">>) }

\* terms of other shapes, the last three with two faults each
Misshapen ==
    { Term(<<Piece(N2, "bad", 0)>>, O2),
      Term(<<Piece(<<>>, "bad", 0)>>, N2),
      Term(<<Number(<<"8", "0">>, 80)>>, <<>>),
      Term(<<Number(<<"8", "0">>, 80), Number(<<"2", "0">>, 20)>>, N2),
      Term(<<>>, <<>>),
      Term(<<>>, <<"8", "0">>),
      Term(<<Number(<<"8", "0">>, 80), Number(<<"2", "0">>, 20)>>, <<"X", "2">>),
      Term(<<Piece(N2, "bad", 0)>>, <<"X", "2">>),
      Term(<<Number(<<"0">>, 0)>>, <<"X", "2">>) }

Terms == {Term(<<>>, id) : id \in {N2, O2, <<"X", "2">>}} \cup WithFraction \cup Misshapen

RECURSIVE Join(_, _)
Join(ss, c) ==
    IF Len(ss) = 1 THEN ss[1]
    ELSE ss[1] \o <<c>> \o Join(Tail(ss), c)

TermText(t) == Join([i \in 1..Len(t.pre) |-> t.pre[i].text] \o <<t.id>>, "%")

SpecText(ts) == Join([i \in 1..Len(ts) |-> TermText(ts[i])], "+")

(***************************************************************************)
(* State                                                                   *)
(***************************************************************************)
VARIABLES
    terms,   \* the terms the input was written from
    input,   \* the argument of Gas::from_string
    result,  \* <<>> before the call, then <<r>>, r the Result returned
    gas,     \* the composition z is evaluated on
    eos,     \* the equation of state z is evaluated with
    call     \* <<>> before the call of z, then <<c>>, c the record of the call

vars == <<terms, input, result, gas, eos, call>>

Init ==
    /\ terms \in UNION {[1..n -> Terms] : n \in 1..MaxTerms}
    /\ input = SpecText(terms)
    /\ result = <<>>
    /\ gas = <<>>
    /\ eos = ""
    /\ call = <<>>

\* process_args: let gas = Gas::from_string(gas)
FromString ==
    /\ result = <<>>
    /\ result' = <<from_string(input)>>
    /\ UNCHANGED <<terms, input, gas, eos, call>>

Next == FromString

Spec == Init /\ [][Next]_vars

(***************************************************************************)
(* The inputs of EosGas::z.  Compositions are built as GasMixture's public *)
(* comps allows: gases of the registry, listed in its order and the same   *)
(* one twice included, with every assignment of molar fractions in         *)
(* quarters that sum to one, zero included.  Temperatures are squares, and *)
(* a composition is evaluated where the alpha of each of its gases stays a *)
(* small rational (InRange).  The solver roots::find_roots_cubic is        *)
(* outside the repository: its answer is any array of zero to three roots, *)
(* in any order.                                                           *)
(***************************************************************************)
MaxComps == 3

\* the vectors of n naturals that sum to k
RECURSIVE Shares(_, _)
Shares(n, k) ==
    IF n = 0 THEN (IF k = 0 THEN {<<>>} ELSE {})
    ELSE UNION { {<<i>> \o v : v \in Shares(n - 1, k - i)} : i \in 0..k }

\* the ways to take n gases of the registry, in the order of the registry
Picks(n) == {g \in [1..n -> DOMAIN GASES] : \A i \in 1..(n - 1) : g[i] <= g[i + 1]}

Compositions ==
    {Pure(GASES[i]) : i \in DOMAIN GASES}
        \cup UNION { { Mixture([i \in 1..n |-> <<Rat(x[i], 4), GASES[g[i]]>>]) :
                          x \in Shares(n, 4), g \in Picks(n) } :
                      n \in 2..MaxComps }

Pressures == {Int2Q(1), Int2Q(2)}

Temperatures == {Int2Q(1), Int2Q(4)}

Answers == UNION {[1..n -> {Int2Q(1), Int2Q(2)}] : n \in 0..3}

Substances(g) ==
    IF g.tag = "Pure" THEN {g.gas} ELSE {pure_gas(g.comps[i]) : i \in DOMAIN g.comps}

InRange(g, e, t) ==
    \A s \in Substances(g) :
        \/ e \in {"VanDerWaals", "RedlichKwong"}
        \/ Int2Q(s.tc) = t
        \/ e = "SoaveRedlichKwong" /\ s.w = 0

InitEos ==
    /\ terms = <<>>
    /\ input = <<>>
    /\ result = <<>>
    /\ gas \in Compositions
    /\ eos \in Eos
    /\ call = <<>>

\* gas.z(eos, p, t), roots being the answer of roots::find_roots_cubic
ZCall ==
    /\ call = <<>>
    /\ \E p \in Pressures, t \in {x \in Temperatures : InRange(gas, eos, x)} :
          \E a \in {Gas_a(gas, eos, t)}, b \in {Gas_b(gas, eos)},
             coefficients \in {Coefficients(gas, eos, p, t)}, roots \in Answers :
              call' = << [p |-> p, t |-> t, a |-> a, b |-> b,
                          coefficients |-> coefficients,
                          roots |-> roots,
                          z |-> SelectRoot(roots)] >>
    /\ UNCHANGED <<terms, input, result, gas, eos>>

NextEos == ZCall

SpecEos == InitEos /\ [][NextEos]_vars

(***************************************************************************)
(* RkGas::z (rk.rs) and EosGas::z with Eos::RedlichKwong (eos.rs) on the   *)
(* same gas, pressure and temperature.  Each asks the solver once, with    *)
(* the cubic it computed on f64.  The solver is a function of the cubic:   *)
(* asked twice for the same cubic it answers twice the same array, asked   *)
(* for two cubics it answers with any two arrays.  The f64 cubics of a     *)
(* mixture are not computed, and nothing is assumed of its two answers.    *)
(***************************************************************************)
\* the f64 cubics of RkGas::z and of EosGas::z, of a pure gas
F64Cubics(g, p, t) ==
    IF g.tag = "Pure"
    THEN <<F64_RkCoefficients(g.gas, p, t), F64_Coefficients(g.gas, p, t)>>
    ELSE <<>>

\* the answers to the second cubic, roots being the answer to the first
Replies(f64, roots) == IF f64 # <<>> /\ f64[1] = f64[2] THEN {roots} ELSE Answers

InitRk ==
    /\ terms = <<>>
    /\ input = <<>>
    /\ result = <<>>
    /\ gas \in Compositions
    /\ eos = "RedlichKwong"
    /\ call = <<>>

\* RkGas::z(gas, p, t) and EosGas::z(gas, Eos::RedlichKwong, p, t)
RkCall ==
    /\ call = <<>>
    /\ \E p \in Pressures, t \in Temperatures :
          \E f64 \in {F64Cubics(gas, p, t)},
             rk \in {RkCoefficients(gas, p, t)},
             eq \in {Coefficients(gas, eos, p, t)},
             roots \in Answers :
              \E again \in Replies(f64, roots) :
                  call' = << [p |-> p, t |-> t, f64 |-> f64,
                              rk  |-> [coefficients |-> rk, roots |-> roots,
                                       z |-> RkSelectRoot(roots)],
                              eos |-> [coefficients |-> eq, roots |-> again,
                                       z |-> SelectRoot(again)]] >>
    /\ UNCHANGED <<terms, input, result, gas, eos>>

NextRk == RkCall

SpecRk == InitRk /\ [][NextRk]_vars

(***************************************************************************)
(* The reading of a specification that section 4.1 of the design gives,    *)
(* stated on the terms the input was written from.                         *)
(***************************************************************************)
Called == result # <<>>

Returned == result[1]

MultiTerm == Len(terms) >= 2

RegistryIds == {GASES[i].id : i \in 1..Len(GASES)}

Registered(id) == CHOOSE g \in {GASES[i] : i \in 1..Len(GASES)} : g.id = id

HasFraction(t) == Len(t.pre) = 1

\* the term passes the validation of a term: at most one "%", a known id, a
\* fraction that is a number and is not <= 0
TermPasses(t) ==
    /\ Len(t.pre) <= 1
    /\ t.id \in RegistryIds
    /\ HasFraction(t) => \/ t.pre[1].kind = "nan"
                         \/ t.pre[1].kind = "num" /\ t.pre[1].val > 0

AllTermsPass == \A i \in 1..Len(terms) : TermPasses(terms[i])

\* the molar fraction a term states: its percentage over 100
StatedFraction(t) == IF t.pre[1].kind = "nan" THEN NaN ELSE Div(FromInt(t.pre[1].val), Hundred)

\* S: the sum of the stated fractions, in the order of the terms
RECURSIVE SumStated(_, _)
SumStated(ts, n) ==
    IF n = 0 THEN Zero
    ELSE IF HasFraction(ts[n]) THEN Add(SumStated(ts, n - 1), StatedFraction(ts[n]))
    ELSE SumStated(ts, n - 1)

S == SumStated(terms, Len(terms))

\* K: the number of terms without a fraction
K == Cardinality({i \in 1..Len(terms) : ~HasFraction(terms[i])})

\* the percentages are all written and add up to exactly 100
RECURSIVE SumPercent(_, _)
SumPercent(ts, n) == IF n = 0 THEN 0 ELSE SumPercent(ts, n - 1) + ts[n].pre[1].val

ExactlyHundred ==
    /\ \A i \in 1..Len(terms) : HasFraction(terms[i]) /\ terms[i].pre[1].kind = "num"
    /\ SumPercent(terms, Len(terms)) = 100

TooHigh == Err("total molar fraction is too high")

TooLow == Err("total molar fraction is too low")

IsMixture == Called /\ Returned.ok /\ Returned.val.tag = "Mixture"

IsPure == Called /\ Returned.ok /\ Returned.val.tag = "Pure"

\* C1: a specification of two or more valid terms whose stated fractions sum
\* to more than 1, or to exactly 1 with a term left to infer, is rejected with
\* "total molar fraction is too high".
C1_TooHigh ==
    (Called /\ MultiTerm /\ AllTermsPass /\ (Gt(S, One) \/ (Eq(S, One) /\ K > 0)))
        => Returned = TooHigh

C1_Witness ==
    Called /\ MultiTerm /\ AllTermsPass /\ Eq(S, One) /\ K > 0 /\ Returned = TooHigh

\* C2: a specification of two or more valid terms is rejected with "total
\* molar fraction is too low" exactly when every term states its fraction and
\* they sum to less than 1; percentages that add up to exactly 100 are never
\* rejected as too low.
C2_TooLowIff ==
    (Called /\ MultiTerm /\ AllTermsPass)
        => /\ (Returned = TooLow) <=> (Lt(S, One) /\ K = 0)
           /\ ExactlyHundred => Returned # TooLow

\* C3: in a returned Mixture a term stating p% has the fraction p/100 and a
\* term stating none has (1 - S)/K.
C3_Fractions ==
    IsMixture =>
        \A i \in 1..Len(terms) :
            Returned.val.comps[i][1] =
                IF HasFraction(terms[i]) THEN StatedFraction(terms[i])
                ELSE Div(Sub(One, S), FromInt(K))

C3_Witness ==
    /\ IsMixture
    /\ K = 2
    /\ \E i \in 1..Len(terms) : HasFraction(terms[i]) /\ terms[i].pre[1].kind = "num"

\* the sum of the molar fractions of a composition, in order
RECURSIVE SumFractions(_, _)
SumFractions(comps, n) ==
    IF n = 0 THEN Zero ELSE Add(SumFractions(comps, n - 1), comps[n][1])

\* the tolerance of "sums to 1": 2^-50, four units in the last place of 1
Tolerance == [k |-> "fin", s |-> 1, m |-> <<1>>, e |-> -50]

\* C4: every Mixture returned has at least two components, every molar
\* fraction in (0, 1], and molar fractions that sum to 1.
C4_MixtureInvariants ==
    IsMixture =>
        LET comps == Returned.val.comps
        IN  /\ Len(comps) >= 2
            /\ \A i \in 1..Len(comps) : Gt(comps[i][1], Zero) /\ Le(comps[i][1], One)
            /\ Le(Abs(Sub(SumFractions(comps, Len(comps)), One)), Tolerance)

\* the specification is malformed: a term of a multi-term input has more than
\* one "%", an id that is not in the registry or a stated fraction <= 0; or the
\* single term is not an id of the registry
Malformed ==
    IF MultiTerm
    THEN \E i \in 1..Len(terms) :
            \/ Len(terms[i].pre) > 1
            \/ terms[i].id \notin RegistryIds
            \/ HasFraction(terms[i]) /\ terms[i].pre[1].kind = "num"
                                     /\ terms[i].pre[1].val <= 0
    ELSE input \notin RegistryIds

\* C8: Gas::from_string never panics, and a malformed specification yields an
\* Err with a cause, never a composition.
C8_MalformedIsErr ==
    Called => /\ ~IsPanic(Returned)
              /\ Malformed => (~Returned.ok /\ Returned.err # "")

C8_Witness ==
    /\ Called
    /\ MultiTerm
    /\ \E i \in 1..Len(terms) : HasFraction(terms[i]) /\ terms[i].pre[1].val = 0
                                   /\ terms[i].pre[1].kind = "num"
    /\ \A i \in 1..Len(terms) : Len(terms[i].pre) <= 1 /\ terms[i].id \in RegistryIds
    /\ Returned = Err("molar fraction cannot be negative")

\* C9: a returned composition is Pure exactly when the input has no "+", and
\* is then the registry entry of the whole input; a returned Mixture has one
\* component per term, in the order of the terms, each with the registry
\* entry of its term's id.
C9_OneComponentPerTerm ==
    (Called /\ Returned.ok) =>
        /\ IsPure <=> (\A i \in 1..Len(input) : input[i] # "+")
        /\ IsPure => Returned.val.gas = Registered(input)
        /\ IsMixture =>
              /\ Len(Returned.val.comps) = Len(terms)
              /\ \A i \in 1..Len(terms) :
                    Returned.val.comps[i][2] = Registered(terms[i].id)

C9_Witness ==
    /\ IsMixture
    /\ Len(terms) = 3
    /\ terms[1].id # terms[2].id
    /\ terms[2].id # terms[3].id

\* the first check a term fails, in the order the claim gives them
Fault(t) ==
    IF Len(t.pre) > 1 THEN "percent"
    ELSE IF t.id \notin RegistryIds THEN "id"
    ELSE IF HasFraction(t) /\ t.pre[1].kind = "bad" THEN "fraction"
    ELSE IF HasFraction(t) /\ t.pre[1].kind = "num" /\ t.pre[1].val <= 0 THEN "sign"
    ELSE "none"

\* the error of a faulty term
FaultError(t) ==
    IF Fault(t) = "percent"
    THEN ErrF("\"{}\" from \"{}\" is invalid gas spec", <<TermText(t), input>>)
    ELSE IF Fault(t) = "id" THEN Err("The requested gas is not referenced")
    ELSE IF Fault(t) = "fraction" THEN ErrF("Can't parse {} as a number", <<t.pre[1].text>>)
    ELSE Err("molar fraction cannot be negative")

Faulty == {i \in 1..Len(terms) : Fault(terms[i]) # "none"}

\* C12: for a specification of two or more terms, the leftmost faulty term
\* decides the error, and within it the checks run in the order more than one
\* "%", unknown id, unparsable fraction, fraction <= 0; the total is tested
\* only when no term is faulty.
C12_ErrorPrecedence ==
    (Called /\ MultiTerm) =>
        IF Faulty # {}
        THEN Returned = FaultError(terms[CHOOSE i \in Faulty : \A j \in Faulty : i <= j])
        ELSE Returned.ok \/ Returned \in {TooHigh, TooLow}

\* two valid terms that sum to more than 1, then a term with an unknown id
\* and a fraction of zero: the unknown id is reported
C12_Witness ==
    /\ Called
    /\ Len(terms) = 3
    /\ Faulty = {3}
    /\ HasFraction(terms[1]) /\ HasFraction(terms[2])
    /\ Gt(Add(StatedFraction(terms[1]), StatedFraction(terms[2])), One)
    /\ terms[3].id \notin RegistryIds
    /\ HasFraction(terms[3]) /\ terms[3].pre[1].val = 0 /\ terms[3].pre[1].kind = "num"
    /\ Returned = Err("The requested gas is not referenced")

(***************************************************************************)
(* Claims about EosGas (specification SpecEos).                            *)
(***************************************************************************)
ZCalled == call # <<>>

TheCall == call[1]

\* the sum of a sequence of values
RECURSIVE QSum(_)
QSum(xs) == IF xs = <<>> THEN Rat(0, 1) ELSE QAdd(xs[1], QSum(Tail(xs)))

\* C5: z returns the largest of the roots the solver found (the root, the
\* maximum of two, the maximum of three); with no root it panics and
\* returns no value.
C5_LargestRoot ==
    ZCalled =>
        LET c == TheCall
            n == Len(c.roots)
        IN  /\ n = 0 => IsPanic(c.z)
            /\ n > 0 => /\ c.z.ok
                        /\ \E i \in 1..n : c.z.val = c.roots[i]
                        /\ \A i \in 1..n : QLe(c.roots[i], c.z.val)
            /\ n = 1 => c.z.val = c.roots[1]

\* three roots, the largest neither first nor last
C5_Witness ==
    /\ ZCalled
    /\ TheCall.roots = <<Int2Q(1), Int2Q(2), Int2Q(1)>>
    /\ TheCall.z = Ok(Int2Q(2))

\* the reduced parameters and the cubic as tabulated
TableA(e, a, p, t) ==
    IF e = "RedlichKwong"
    THEN QDiv(QMul(a, p), QMul(QMul(R, R), QPowf25(t)))
    ELSE QDiv(QMul(a, p), QMul(QMul(R, R), QMul(t, t)))

TableB(bb, p, t) == QDiv(QMul(bb, p), QMul(R, t))

TableCubic(e, A, B) ==
    LET one == Int2Q(1)
        AB  == QMul(A, B)
        B2  == QMul(B, B)
    IN  IF e = "VanDerWaals" THEN <<one, QSub(QNeg(B), one), A, QNeg(AB)>>
        ELSE IF e = "PengRobinson"
        THEN <<one, QSub(B, one),
               QAdd(QSub(QNeg(QMul(Int2Q(3), B2)), QMul(Int2Q(2), B)), A),
               QSub(QAdd(QMul(B2, B), B2), AB)>>
        ELSE <<one, QNeg(one), QSub(QSub(A, B2), B), QNeg(AB)>>

\* C6: for each variant, the cubic handed to the solver is the tabulated one
\* of A = a*P/(R^2*T^2) (T^2.5 for RedlichKwong) and B = b*P/(R*T).
C6_CubicAsTabulated ==
    ZCalled =>
        LET c == TheCall
            A == TableA(eos, c.a, c.p, c.t)
            B == TableB(c.b, c.p, c.t)
        IN  c.coefficients = TableCubic(eos, A, B)

\* a RedlichKwong call where T^2.5 differs from T^2
C6_Witness ==
    /\ ZCalled
    /\ eos = "RedlichKwong"
    /\ TheCall.t = Int2Q(4)
    /\ TheCall.coefficients[3] # Rat(0, 1)

\* the double sum over all ordered pairs and the sum of the mixing rule
PairSum(comps, e, t) ==
    LET n == Len(comps)
        x == [i \in 1..n |-> comps[i][1]]
        a == [i \in 1..n |-> PureGas_a(comps[i][2], e, t)]
    IN  QSum([i \in 1..n |->
               QSum([j \in 1..n |-> QMul(QMul(x[i], x[j]), QSqrt(QMul(a[i], a[j])))])])

WeightedSum(comps, e) ==
    QSum([i \in 1..Len(comps) |-> QMul(comps[i][1], PureGas_b(comps[i][2], e))])

\* C7: b of a Mixture is the sum of x_i*b_i and a is the sum over all ordered
\* pairs (i, j) of x_i*x_j*sqrt(a_i*a_j); a and b of a Pure gas are the
\* substance's own.
C7_MixingRule ==
    ZCalled =>
        LET t == TheCall.t
        IN  IF gas.tag = "Pure"
            THEN /\ TheCall.a = PureGas_a(gas.gas, eos, t)
                 /\ TheCall.b = PureGas_b(gas.gas, eos)
            ELSE /\ TheCall.a = PairSum(gas.comps, eos, t)
                 /\ TheCall.b = WeightedSum(gas.comps, eos)

\* a mixture of three different gases, none with a zero fraction
C7_Witness ==
    /\ ZCalled
    /\ gas.tag = "Mixture"
    /\ Len(gas.comps) = 3
    /\ \A i, j \in 1..3 : i # j => gas.comps[i][2] # gas.comps[j][2]
    /\ \A i \in 1..3 : gas.comps[i][1] # Rat(0, 1)

\* a two-component mixture with fractions (1, 0) or (0, 1)
IsReduced(g) ==
    /\ g.tag = "Mixture"
    /\ Len(g.comps) = 2
    /\ {g.comps[1][1], g.comps[2][1]} = {Int2Q(1), Int2Q(0)}

NonZeroComponent(g) == IF g.comps[1][1] = Int2Q(1) THEN g.comps[1][2] ELSE g.comps[2][2]

\* C10: a two-component mixture with fractions (1, 0) has the a and the b of
\* the Pure gas of its non-zero component, and hands the solver the same
\* cubic, whose answer gives the same Z.
C10_MixtureReduction ==
    (ZCalled /\ IsReduced(gas)) =>
        LET c    == TheCall
            pure == Pure(NonZeroComponent(gas))
        IN  /\ c.a = Gas_a(pure, eos, c.t)
            /\ c.b = Gas_b(pure, eos)
            /\ c.coefficients = Coefficients(pure, eos, c.p, c.t)
            /\ c.z = SelectRoot(c.roots)

\* a (1, 0) mixture of two different gases, evaluated to a value
C10_Witness ==
    /\ ZCalled
    /\ IsReduced(gas)
    /\ gas.comps[1][2] # gas.comps[2][2]
    /\ gas.comps[1][1] = Int2Q(1)
    /\ TheCall.z.ok

(***************************************************************************)
(* rk.rs against eos.rs                                                    *)
(***************************************************************************)
\* the last element of a non-empty array is its maximum
LastIsMax(roots) == \A i \in 1..Len(roots) : QLe(roots[i], roots[Len(roots)])

Ascending(roots) == \A i \in 1..(Len(roots) - 1) : QLe(roots[i], roots[i + 1])

====
